---- MODULE Spec2Model ----
(***************************************************************************)
(* A model of the knowledge-retrieval store of aws-cloudops-agent:         *)
(* class DynamoRAG in src/src/rag_system.py (create_table, add_knowledge,  *)
(* search, get_context) over a DynamoDB table, an external text encoder    *)
(* and the Python process that hosts them.                                 *)
(*                                                                         *)
(* Abstractions, all stated where they are made:                           *)
(*  - texts are drawn from a small set; the encoder is a fixed table from  *)
(*    text to a 2-dimensional integer vector;                              *)
(*  - cosine similarities are compared exactly (as rationals under a       *)
(*    square root), not in IEEE arithmetic; 0/0 is NaN as in numpy;        *)
(*  - the table keeps an item as put_item was given it (the wire format of  *)
(*    its attributes is not modelled);                                     *)
(*  - str(e) of an exception is the sequence of its words;                 *)
(*  - a string built by repeated += is the sequence of appended pieces.    *)
(*                                                                         *)
(* and of the Lambda entry points: src/lambda_handler.py (the global       *)
(* agent, initialize_agent, lambda_handler, health_check_handler) and      *)
(* lambda_handler of src/lambda_handler_minimal.py. An event is a dict; a  *)
(* request field is absent, a string or a number; chat never raises.       *)
(***************************************************************************)
EXTENDS Integers, Sequences, FiniteSets, TLC

\* ------------------------------------------------------------------ bounds

\* The largest number of items the table holds under Spec.
MaxItems == 2

\* The largest number of items the table holds under SpecSearch.
MaxSearchItems == 3

\* The number of items that fit in one page (1 MB) of a DynamoDB Scan.
ScanPageLimit == 2

\* The largest top_k a caller passes; the smallest is -1.
MaxTopK == 3

\* ------------------------------------------------------------- input sets

\* Texts handed to add_knowledge; "" is the empty content.
Contents == {"", "ec2", "s3", "iam", "vpc", "nul"}

\* The texts among them that Spec hands to add_knowledge.
StoreContents == {"", "ec2"}

\* The texts among them that SpecSearch hands to add_knowledge.
SearchContents == {"ec2", "s3", "iam", "vpc", "nul"}

\* Texts handed to search and get_context.
Queries == {"ec2", "nul"}

\* The text among them that Spec hands to search and get_context.
StoreQueries == {"ec2"}

\* The default of add_knowledge's category.
DefaultCategory == "general"

Categories == {DefaultCategory, "ops"}

\* A metadata argument: Python's None, or a dict as its set of (key, value)
\* pairs.
NoneArg == [isNone |-> TRUE, dict |-> {}]

DictArg(d) == [isNone |-> FALSE, dict |-> d]

\* metadata arguments: None (the default), {} and a one-entry dict.
MetadataArgs == {NoneArg, DictArg({}), DictArg({<<"source", "docs">>})}

\* Seeds of the string hash (PYTHONHASHSEED): a process draws one when it
\* starts.
Seeds == {0, 1}

TopKs == (0 - 1) .. MaxTopK

\* Table names as word sequences: the default of __init__, and a name with a
\* space in it, which DynamoDB rejects.
DefaultTableName == <<"aws-cloudops-knowledge">>

TableNames == {DefaultTableName, <<"already", "exists">>}

\* --------------------------------------------------------------- helpers

Min(a, b) == IF a < b THEN a ELSE b

Max(a, b) == IF a > b THEN a ELSE b

Range(s) == {s[i] : i \in DOMAIN s}

\* Python's `needle in haystack` on word sequences: a contiguous occurrence.
Contains(haystack, needle) ==
    \E i \in 0 .. (Len(haystack) - Len(needle)) :
        \A j \in 1 .. Len(needle) : haystack[i + j] = needle[j]

\* Python's s[:k]: the first k elements, or all but the last -k when k < 0.
SliceTo(s, k) ==
    LET n == IF k >= 0 THEN Min(k, Len(s)) ELSE Max(Len(s) + k, 0)
    IN  SubSeq(s, 1, n)

\* The injective sequences of length n over the set S.
Arrangements(S, n) ==
    {s \in [1 .. n -> S] : \A i, j \in 1 .. n : i # j => s[i] # s[j]}

\* ---------------------------------------------------------------- encoder

\* The length of the vectors of the encoder __init__ loads: the model's
\* stand-in for the dimension of 'all-MiniLM-L6-v2'.
EmbeddingDim == 2

\* SentenceTransformer.encode(text).tolist(): deterministic, one vector per
\* text.  The source puts no condition on the vectors the encoder returns;
\* these are the vectors of the specification's test cases, with a
\* proportional pair ([1,0], [2,0]) and a zero vector.
Encode(text) ==
    CASE text = "ec2" -> <<1, 0>>
      [] text = "s3"  -> <<0, 1>>
      [] text = "iam" -> <<1, 1>>
      [] text = "vpc" -> <<2, 0>>
      [] text = "nul" -> <<0, 0>>
      [] OTHER        -> <<0, 2>>

\* ------------------------------------------------------------------- hash

\* A position of the text in the hash function's input space.
TextCode(text) ==
    CASE text = "ec2" -> 1
      [] text = "s3"  -> 2
      [] text = "iam" -> 3
      [] text = "vpc" -> 4
      [] text = "nul" -> 5
      [] OTHER        -> 6

\* Python's hash(str): keyed by the process's seed, of either sign, and 0 for
\* the empty string under every seed.
Hash(seed, text) ==
    IF text = "" THEN 0
    ELSE (IF seed % 2 = 1 THEN 0 - 1 ELSE 1) * (TextCode(text) + 10 * seed)

\* f"{category}_{hash(content)}"
ItemId(seed, category, content) ==
    category \o "_" \o ToString(Hash(seed, content))

\* ------------------------------------------------------------------ state

VARIABLES
    table_name,   \* self.table_name, fixed by __init__
    tableExists,  \* whether the DynamoDB table exists
    table,        \* the table's items, keyed by their 'id' attribute
    hashSeed,     \* the string-hash seed of the running process
    call,         \* the last call made: [op, text, category, metadata, top_k]
    raised,       \* the exception the last call raised, "" when it returned
    scanned,      \* the items table.scan() delivered to the last call, in its order
    ranked,       \* the items search returned in the last call, in its order
    returned,     \* what the last call returned
    agent,        \* lambda_handler.py's global agent: NoAgent or an instance
    built,        \* how many agents this process has constructed (history)
    invocation    \* the last handler invocation and what came of it

vars ==
    <<table_name, tableExists, table, hashSeed, call, raised, scanned, ranked,
      returned, agent, built, invocation>>

\* The state of the handler module.
lambdaVars == <<agent, built, invocation>>

\* The state of the knowledge store.
ragVars ==
    <<table_name, tableExists, table, hashSeed, call, raised, scanned, ranked,
      returned>>

\* The global agent before any construction: Python's None.
NoAgent == 0

\* A JSON value of a request field: absent, a string, or a number.
Missing == [kind |-> "absent", value |-> ""]

Str(s) == [kind |-> "str", value |-> s]

Num(s) == [kind |-> "int", value |-> s]

\* A parsed JSON object with its two fields, and a JSON text that is not an
\* object (null, a list, or text json.loads rejects).
Object(q, s) == [kind |-> "object", question |-> q, session_id |-> s]

NonObject(kind) == [kind |-> kind, question |-> Missing, session_id |-> Missing]

\* No handler has been invoked yet in this process.
Idle ==
    [handler |-> "none", event |-> [gateway |-> FALSE, payload |-> Object(Missing, Missing)],
     request_id |-> "", construction |-> "none", agent_used |-> NoAgent,
     raised |-> "", statusCode |-> 0, session_id |-> Missing, error |-> "",
     response |-> ""]

\* The handler module as imported: agent = None.
LambdaInit ==
    /\ agent = NoAgent
    /\ built = 0
    /\ invocation = Idle

\* A call and its arguments; an argument the operation does not take is left
\* at the value given here.
Call(op) ==
    [op |-> op, text |-> "", category |-> "", metadata |-> NoneArg, top_k |-> 0]

Init ==
    /\ table_name \in TableNames
    /\ tableExists \in BOOLEAN
    /\ tableExists => table_name = DefaultTableName
    /\ table = <<>>
    /\ hashSeed \in Seeds
    /\ call = Call("__init__")
    /\ raised = ""
    /\ scanned = <<>>
    /\ ranked = <<>>
    /\ returned = <<>>
    /\ LambdaInit

\* ----------------------------------------------------------- create_table

\* The words "already exists" that create_table looks for in str(e).
AlreadyExists == <<"already", "exists">>

\* DynamoDB accepts a table name of the characters [a-zA-Z0-9_.-] only: one
\* word, no space.
ValidTableName(name) == Len(name) = 1

\* What dynamodb.create_table(TableName=...) does: it creates the table, or
\* raises an error whose message is a sequence of words.  A name DynamoDB
\* rejects is echoed in the message of the rejection.
CreateTableOutcomes ==
    IF ~ValidTableName(table_name)
    THEN {[created |-> FALSE, error |-> "ValidationException",
           message |-> <<"Value", "'">> \o table_name
                       \o <<"'", "at", "'tableName'", "failed", "to",
                             "satisfy", "constraint">>]}
    ELSE IF tableExists
    THEN {[created |-> FALSE, error |-> "ResourceInUseException",
           message |-> <<"Table", "already", "exists", ":">> \o table_name]}
    ELSE {[created |-> TRUE, error |-> "", message |-> <<>>],
          [created |-> FALSE, error |-> "AccessDeniedException",
           message |-> <<"User", "is", "not", "authorized", "to", "perform",
                         "dynamodb:CreateTable">>]}

\* The except clause of create_table: whether the exception is swallowed.
Tolerated(outcome) == Contains(outcome.message, AlreadyExists)

create_table ==
    /\ call' = Call("create_table")
    /\ \E o \in CreateTableOutcomes :
          /\ tableExists' = (tableExists \/ o.created)
          /\ raised' = IF o.created \/ Tolerated(o) THEN "" ELSE o.error
    /\ scanned' = <<>>
    /\ ranked' = <<>>
    /\ returned' = <<>>
    /\ UNCHANGED <<table_name, table, hashSeed, agent, built,
                 invocation>>

\* ---------------------------------------------------------- add_knowledge

\* `metadata or {}`
MetadataOrEmpty(metadata) ==
    IF metadata.isNone \/ metadata.dict = {} THEN {} ELSE metadata.dict

\* The item with its embedding padded by one component.
NewItemPadded(seed, content, category, metadata) ==
    [id        |-> ItemId(seed, category, content),
     content   |-> content,
     category  |-> category,
     embedding |-> Encode(content) \o <<0>>,
     metadata  |-> MetadataOrEmpty(metadata)]

\* The item dict add_knowledge builds (lines 38-44).
NewItem(seed, content, category, metadata) ==
    [id        |-> ItemId(seed, category, content),
     content   |-> content,
     category  |-> category,
     embedding |-> Encode(content),
     metadata  |-> MetadataOrEmpty(metadata)]

\* table.put_item(Item=item): the item replaces the one stored under its id.
PutItem(t, item) ==
    [k \in DOMAIN t \cup {item.id} |-> IF k = item.id THEN item ELSE t[k]]

\* add_knowledge with the write moved before the encoding: the item is put
\* without its embedding, and again with it once the encoder has answered.
AddKnowledgeWriteFirst(encoded, content, category, metadata) ==
    IF ~tableExists
    THEN raised' = "ResourceNotFoundException" /\ table' = table
    ELSE IF ~encoded
    THEN /\ raised' = "EmbeddingError"
         /\ table' = PutItem(table,
                [NewItem(hashSeed, content, category, metadata)
                    EXCEPT !.embedding = <<>>])
    ELSE /\ raised' = ""
         /\ table' = PutItem(table, NewItem(hashSeed, content, category, metadata))

\* What add_knowledge does once the encoder has answered or failed.
AddKnowledgeEffect(encoded, content, category, metadata) ==
    IF ~encoded
    THEN raised' = "EmbeddingError" /\ table' = table
    ELSE IF ~tableExists
    THEN raised' = "ResourceNotFoundException" /\ table' = table
    ELSE /\ raised' = ""
         /\ table' = PutItem(table, NewItem(hashSeed, content, category, metadata))

add_knowledge(content, category, metadata) ==
    /\ call' = [Call("add_knowledge") EXCEPT
                  !.text = content, !.category = category, !.metadata = metadata]
    /\ \E encoded \in BOOLEAN :
          AddKnowledgeEffect(encoded, content, category, metadata)
    /\ scanned' = <<>>
    /\ ranked' = <<>>
    /\ returned' = <<>>
    /\ UNCHANGED <<table_name, tableExists, hashSeed, agent, built,
                 invocation>>

\* The model's cap on the table: a call that would add an item beyond the
\* cap is not taken.
RoomFor(content, category, cap) ==
    \/ ItemId(hashSeed, category, content) \in DOMAIN table
    \/ Cardinality(DOMAIN table) < cap

\* ---------------------------------------------------------------- process

\* The process ends and a new one constructs DynamoRAG over the same table;
\* its string hashes are keyed by a seed of its own.
Restart ==
    /\ hashSeed' \in Seeds
    /\ call' = Call("__init__")
    /\ raised' = ""
    /\ returned' = <<>>
    /\ scanned' = <<>>
    /\ ranked' = <<>>
    /\ UNCHANGED <<table_name, tableExists, table, agent, built,
                 invocation>>

\* ----------------------------------------------------------------- search

\* The default of search's top_k, which get_context relies on.
DefaultTopK == 3

Dot(u, v) == u[1] * v[1] + u[2] * v[2]

\* The square of np.linalg.norm(v).
NormSq(v) == Dot(v, v)

\* np.dot(q, v) / (norm(q) * norm(v)), kept exact: the quotient of `dot` by
\* the square root of `nn`.  nn = 0 is the division 0.0 / 0.0, whose result
\* in numpy is NaN (with a RuntimeWarning, no exception).
Similarity(q, v) == [dot |-> Dot(q, v), nn |-> NormSq(q) * NormSq(v)]

IsNaN(x) == x.nn = 0

\* sign(dot) * dot^2: with nn, the similarity under x |-> sign(x) * x^2,
\* which keeps the order.
SignedSquare(x) == IF x.dot < 0 THEN 0 - (x.dot * x.dot) ELSE x.dot * x.dot

\* x < y on floats: false whenever either side is NaN.
Less(x, y) ==
    /\ ~IsNaN(x)
    /\ ~IsNaN(y)
    /\ SignedSquare(x) * y.nn < SignedSquare(y) * x.nn

\* One page of table.scan(): response['Items'].  The items come in an order
\* of DynamoDB's choosing, and a table larger than a page yields a part of
\* itself (the rest is behind LastEvaluatedKey, which search does not read).
ScanPages ==
    Arrangements({table[k] : k \in DOMAIN table},
                 Min(Cardinality(DOMAIN table), ScanPageLimit))

\* The loop of lines 57-63: one (similarity, item) pair per scanned item.
Similarities(query, items) ==
    [i \in 1 .. Len(items) |->
        [score |-> Similarity(Encode(query), items[i].embedding),
         item  |-> items[i]]]

\* x put into a list sorted by descending score, after the entries that are
\* not below it.
InsertDesc(sorted, x) ==
    LET below == {i \in 1 .. Len(sorted) : Less(sorted[i].score, x.score)}
        p     == IF below = {} THEN Len(sorted) + 1
                 ELSE CHOOSE i \in below : \A j \in below : i <= j
    IN  SubSeq(sorted, 1, p - 1) \o <<x>> \o SubSeq(sorted, p, Len(sorted))

RECURSIVE StableSortDesc(_)
\* list.sort(key=score, reverse=True) on comparable scores: descending, and
\* entries of equal score in the order they had (the sort is stable).
StableSortDesc(pairs) ==
    IF Len(pairs) = 0 THEN <<>>
    ELSE InsertDesc(StableSortDesc(SubSeq(pairs, 1, Len(pairs) - 1)),
                    pairs[Len(pairs)])

Rearrangements(pairs) ==
    {[i \in 1 .. Len(pairs) |-> pairs[p[i]]] :
        p \in Arrangements(1 .. Len(pairs), Len(pairs))}

\* similarities.sort(key=lambda x: x[0], reverse=True).  With a NaN among the
\* keys `<` is no order and the list ends in an arrangement that depends on
\* the sort's implementation: any of them.
SortOutcomes(pairs) ==
    IF \E i \in 1 .. Len(pairs) : IsNaN(pairs[i].score)
    THEN Rearrangements(pairs)
    ELSE {StableSortDesc(pairs)}

\* [item for _, item in similarities[:top_k]]
TopItems(sorted, top_k) ==
    LET cut == SliceTo(sorted, top_k)
    IN  [i \in 1 .. Len(cut) |-> cut[i].item]

\* What search(query, top_k) can do: the exception it raises, or the page it
\* scanned and the items it returns.
SearchOutcomes(query, top_k) ==
    {[raised |-> "EmbeddingError", scanned |-> <<>>, results |-> <<>>]}
    \cup
    IF ~tableExists
    THEN {[raised |-> "ResourceNotFoundException", scanned |-> <<>>,
           results |-> <<>>]}
    ELSE UNION {
           {[raised |-> "", scanned |-> page, results |-> TopItems(sorted, top_k)] :
               sorted \in SortOutcomes(Similarities(query, page))} :
           page \in ScanPages}

search(query, top_k) ==
    /\ call' = [Call("search") EXCEPT !.text = query, !.top_k = top_k]
    /\ \E o \in SearchOutcomes(query, top_k) :
          /\ raised' = o.raised
          /\ scanned' = o.scanned
          /\ ranked' = o.results
          /\ returned' = o.results
    /\ UNCHANGED <<table_name, tableExists, table, hashSeed, agent, built,
                 invocation>>

\* ------------------------------------------------------------ get_context

\* The context with each line showing the item's id beside its content.
ContextWithIds(results) ==
    IF Len(results) = 0 THEN <<>>
    ELSE <<"Relevant Knowledge:\n">>
         \o [i \in 1 .. Len(results) |->
                ToString(i) \o ". " \o results[i].id \o ": "
                \o results[i].content \o "\n"]

\* The string get_context builds, as the pieces it appends: "" when there
\* are no results, else the heading (written here without its leading emoji
\* and space) and one numbered line per result.
Context(results) ==
    IF Len(results) = 0 THEN <<>>
    ELSE <<"Relevant Knowledge:\n">>
         \o [i \in 1 .. Len(results) |->
                ToString(i) \o ". " \o results[i].content \o "\n"]

get_context(query) ==
    /\ call' = [Call("get_context") EXCEPT !.text = query, !.top_k = DefaultTopK]
    /\ \E o \in SearchOutcomes(query, DefaultTopK) :
          /\ raised' = o.raised
          /\ scanned' = o.scanned
          /\ ranked' = o.results
          /\ returned' = IF o.raised = "" THEN Context(o.results) ELSE <<>>
    /\ UNCHANGED <<table_name, tableExists, table, hashSeed, agent, built,
                 invocation>>

\* ------------------------------------------------------------------- spec

\* The store over processes: every argument of add_knowledge, restarts, and
\* the reads with search's default top_k.
Next ==
    \/ create_table
    \/ \E content \in StoreContents, category \in Categories,
          metadata \in MetadataArgs :
          /\ RoomFor(content, category, MaxItems)
          /\ add_knowledge(content, category, metadata)
    \/ \E query \in StoreQueries : search(query, DefaultTopK)
    \/ \E query \in StoreQueries : get_context(query)
    \/ Restart

Spec == Init /\ [][Next]_vars

\* The retrieval of one process: add_knowledge with its default category and
\* metadata, and every query and top_k.
NextSearch ==
    \/ create_table
    \/ \E content \in SearchContents :
          /\ RoomFor(content, DefaultCategory, MaxSearchItems)
          /\ add_knowledge(content, DefaultCategory, NoneArg)
    \/ \E query \in Queries, top_k \in TopKs : search(query, top_k)
    \/ \E query \in Queries : get_context(query)

SpecSearch == Init /\ [][NextSearch]_vars

\* -------------------------------------------------------- lambda handlers

\* The request ids the Lambda runtime hands over in context.aws_request_id.
RequestIds == {"req-1", "req-2"}

\* The values of the request's 'question': absent, empty, a text, a number.
QuestionValues == {Missing, Str(""), Str("list my ec2 instances"), Num("5")}

\* The values of the request's 'session_id': absent or supplied.
SessionIdValues == {Missing, Str("test-session-123")}

Objects == {Object(q, s) : q \in QuestionValues, s \in SessionIdValues}

\* What the string in an API Gateway event's 'body' may hold.
JsonTexts ==
    Objects \cup {NonObject("null"), NonObject("list"), NonObject("malformed")}

\* An event is a dict: the request itself (direct invocation), or a dict
\* whose 'body' is a string of JSON text (API Gateway).
Events ==
    {[gateway |-> FALSE, payload |-> o] : o \in Objects}
    \cup {[gateway |-> TRUE, payload |-> t] : t \in JsonTexts}

\* What chat may return: the model's answer, or the apology it builds when
\* the agent raised (chat never raises).
ChatReplies == {"answer", "Sorry, I encountered an error"}

\* What lambda_handler_minimal puts in 'response': the greeting with or
\* without the region, by whether boto3.client('ec2') raised.
MinimalReplies == {"hello with region", "hello"}

\* dict.get(key, default).
Get(v, default) == IF v.kind = "absent" THEN default ELSE v

\* Python's truth value of a request field.
Truthy(v) == (v.kind = "str" /\ v.value # "") \/ v.kind = "int"

\* initialize_agent with every call constructing a new agent.
InitializeAgentAnew(a, n) ==
    {[agent |-> n + 1, raised |-> "", construction |-> "ok"],
     [agent |-> NoAgent, raised |-> "Exception", construction |-> "failed"]}

\* initialize_agent, given the global agent and the number of agents built
\* so far: the global agent afterwards, the exception raised, and whether
\* the constructor ran. The constructor may raise.
initialize_agent(a, n) ==
    IF a = NoAgent
    THEN {[agent |-> n + 1, raised |-> "", construction |-> "ok"],
          [agent |-> NoAgent, raised |-> "Exception", construction |-> "failed"]}
    ELSE {[agent |-> a, raised |-> "", construction |-> "none"]}

\* The parsing of the event: json.loads of the body string when the event
\* has one, the event itself otherwise. 'bound' says whether the local
\* variable body was assigned.
ParseEvent(event) ==
    IF event.gateway /\ event.payload.kind = "malformed"
    THEN [bound |-> FALSE, body |-> event.payload, raised |-> "JSONDecodeError"]
    ELSE [bound |-> TRUE, body |-> event.payload, raised |-> ""]

\* The try block of lambda_handler after the agent's initialisation, which
\* raised initRaised ("" when it returned): the exception that left the
\* block, or the envelope it returned.
TryBlock(initRaised, event, rid, reply) ==
    LET parsed == ParseEvent(event)
        body == parsed.body
        question == Get(body.question, Str(""))
        session_id == Get(body.session_id, Str(rid))
        Fail(e, bound) ==
            [raised |-> e, bound |-> bound, statusCode |-> 0,
             session_id |-> Missing, chatted |-> FALSE, response |-> ""]
    IN  IF initRaised # "" THEN Fail(initRaised, FALSE)
        ELSE IF parsed.raised # "" THEN Fail(parsed.raised, FALSE)
        ELSE IF body.kind # "object" THEN Fail("AttributeError", TRUE)
        ELSE IF ~Truthy(question)
             THEN [raised |-> "", bound |-> TRUE, statusCode |-> 400,
                   session_id |-> session_id, chatted |-> FALSE, response |-> ""]
        ELSE IF question.kind # "str" THEN Fail("TypeError", TRUE)
        ELSE [raised |-> "", bound |-> TRUE, statusCode |-> 200,
              session_id |-> session_id, chatted |-> TRUE, response |-> reply]

\* The except handler of lambda_handler: the 500 envelope, whose session_id
\* is body.get('session_id', request id) when body is a local, which raises
\* in its turn when body has no get.
ExceptHandler(bound, body, rid) ==
    IF ~bound
    THEN [raised |-> "", statusCode |-> 500, session_id |-> Str(rid)]
    ELSE IF body.kind = "object"
    THEN [raised |-> "", statusCode |-> 500,
          session_id |-> Get(body.session_id, Str(rid))]
    ELSE [raised |-> "AttributeError", statusCode |-> 0, session_id |-> Missing]

\* What an invocation of lambda_handler comes to.
Handle(initRaised, event, rid, reply) ==
    LET t == TryBlock(initRaised, event, rid, reply)
        h == ExceptHandler(t.bound, event.payload, rid)
    IN  IF t.raised = ""
        THEN [raised |-> "", statusCode |-> t.statusCode,
              session_id |-> t.session_id, chatted |-> t.chatted,
              response |-> t.response, error |-> ""]
        ELSE [raised |-> h.raised, statusCode |-> h.statusCode,
              session_id |-> h.session_id, chatted |-> FALSE,
              response |-> "", error |-> t.raised]

\* The record of an invocation.
Invocation(handler, event, rid, construction, used, r) ==
    [handler |-> handler, event |-> event, request_id |-> rid,
     construction |-> construction, agent_used |-> used,
     raised |-> r.raised, statusCode |-> r.statusCode,
     session_id |-> r.session_id, error |-> r.error, response |-> r.response]

\* lambda_handler of lambda_handler.py.
lambda_handler(event, rid) ==
    \E init \in initialize_agent(agent, built), reply \in ChatReplies :
        LET r == Handle(init.raised, event, rid, reply)
        IN  /\ agent' = init.agent
            /\ built' = IF init.construction = "ok" THEN built + 1 ELSE built
            /\ invocation' =
                  Invocation("lambda_handler", event, rid, init.construction,
                             IF r.chatted THEN init.agent ELSE NoAgent, r)
            /\ UNCHANGED ragVars

\* health_check_handler of lambda_handler.py; it does not read its event.
health_check_handler(rid) ==
    \E init \in initialize_agent(agent, built) :
        LET r == [raised |-> "",
                  statusCode |-> IF init.raised = "" THEN 200 ELSE 500,
                  session_id |-> Missing, error |-> init.raised,
                  response |-> IF init.raised = "" THEN "healthy" ELSE "unhealthy"]
        IN  /\ agent' = init.agent
            /\ built' = IF init.construction = "ok" THEN built + 1 ELSE built
            /\ invocation' =
                  Invocation("health_check_handler", Idle.event, rid,
                             init.construction, NoAgent, r)
            /\ UNCHANGED ragVars

\* lambda_handler of lambda_handler_minimal.py: the same parsing, checks and
\* except handler, with no agent.
lambda_handler_minimal(event, rid) ==
    \E reply \in MinimalReplies :
        /\ invocation' =
              Invocation("lambda_handler_minimal", event, rid, "none", NoAgent,
                         Handle("", event, rid, reply))
        /\ UNCHANGED <<agent, built>>
        /\ UNCHANGED ragVars

\* The container is recycled: the handler module is imported anew.
ColdStart ==
    /\ agent' = NoAgent
    /\ built' = 0
    /\ invocation' = Idle
    /\ UNCHANGED ragVars

\* The handlers of one deployment, with no knowledge store in use.
InitLambda ==
    /\ LambdaInit
    /\ table_name = DefaultTableName
    /\ tableExists = FALSE
    /\ table = <<>>
    /\ hashSeed = 0
    /\ call = Call("__init__")
    /\ raised = ""
    /\ scanned = <<>>
    /\ ranked = <<>>
    /\ returned = <<>>

NextLambda ==
    \/ \E event \in Events, rid \in RequestIds : lambda_handler(event, rid)
    \/ \E rid \in RequestIds : health_check_handler(rid)
    \/ \E event \in Events, rid \in RequestIds :
          lambda_handler_minimal(event, rid)
    \/ ColdStart

SpecLambda == InitLambda /\ [][NextLambda]_vars

\* ------------------------------------------------- notions of the claims

\* The items stored in the table.
StoredItems == {table[k] : k \in DOMAIN table}

\* An item whose embedding has a norm other than zero: one the
\* specification's ranker ranks.
Rankable(item) == NormSq(item.embedding) # 0

\* The similarity of an item to the query of the last call.
Score(item) == Similarity(Encode(call.text), item.embedding)

\* x >= y on similarities that are both defined.
AtLeast(x, y) == ~IsNaN(x) /\ ~IsNaN(y) /\ ~Less(x, y)

\* The last call was a search that returned.
Searched == call.op = "search" /\ raised = ""

RECURSIVE Digits(_)
\* The ASCII codes of the decimal digits of n >= 0.
Digits(n) == IF n < 10 THEN <<48 + n>> ELSE Digits(n \div 10) \o <<48 + (n % 10)>>

\* The ASCII codes of str(n).
Decimal(n) == IF n < 0 THEN <<45>> \o Digits(0 - n) ELSE Digits(n)

\* a before b in lexicographic order.
LexLess(a, b) ==
    \E i \in 1 .. (Min(Len(a), Len(b)) + 1) :
        /\ \A j \in 1 .. (i - 1) : a[j] = b[j]
        /\ \/ i > Len(a) /\ i <= Len(b)
           \/ i <= Len(a) /\ i <= Len(b) /\ a[i] < b[i]

\* The hash in an item's id.
HashOf(item) ==
    Hash(CHOOSE s \in Seeds : ItemId(s, item.category, item.content) = item.id,
         item.content)

\* x.id < y.id as strings: "general_..." is before "ops_...", and within a
\* category the ids differ in the decimal of the hash.
IdLess(x, y) ==
    IF x.category = y.category
    THEN LexLess(Decimal(HashOf(x)), Decimal(HashOf(y)))
    ELSE x.category = DefaultCategory

\* ------------------------------------------------------------------ claims

\* C1. Idempotent insert: put twice with the same (category, content), in one
\* process or across a restart, derives the same id, so the store holds at
\* most one item for any (category, content).
C1_IdempotentInsert ==
    \A x, y \in StoredItems :
        x.category = y.category /\ x.content = y.content => x.id = y.id

\* C2. Ranking correctness: for k > 0 search returns min(k, number of
\* rankable candidates) items, in non-increasing similarity order, each with
\* a score at least that of every candidate it does not return.
C2_RankingCorrect ==
    Searched /\ call.top_k > 0 =>
        /\ Len(ranked) =
               Min(call.top_k, Cardinality({c \in Range(scanned) : Rankable(c)}))
        /\ \A i, j \in 1 .. Len(ranked) :
               i < j => AtLeast(Score(ranked[i]), Score(ranked[j]))
        /\ \A i \in 1 .. Len(ranked) :
               \A c \in Range(scanned) \ Range(ranked) :
                   Rankable(c) => AtLeast(Score(ranked[i]), Score(c))

\* C3. Tie-break determinism: two returned items of the same score are in
\* ascending id order, whatever the order of the scan.
C3_TieBreakById ==
    Searched =>
        \A i, j \in 1 .. Len(ranked) :
            /\ i < j
            /\ AtLeast(Score(ranked[i]), Score(ranked[j]))
            /\ AtLeast(Score(ranked[j]), Score(ranked[i]))
            => IdLess(ranked[i], ranked[j])

\* C4. Exhaustive scan: every item stored in the table is scored as a
\* candidate by search, however large the table.
C4_ExhaustiveScan == Searched => Range(scanned) = StoredItems

\* C5. Bounds on k: k <= 0 returns the empty sequence, k above the candidate
\* count returns every candidate, and no call returns more than k items.
C5_BoundsOnK ==
    Searched =>
        /\ call.top_k <= 0 => ranked = <<>>
        /\ call.top_k > Len(scanned) => Range(ranked) = Range(scanned)
        /\ Len(ranked) <= Max(call.top_k, 0)

\* C6. Zero-norm exclusion: no item whose embedding has zero norm is in the
\* result of search, and its presence leaves the other candidates in
\* descending order of score.
C6_ZeroNormExcluded ==
    Searched =>
        /\ \A i \in 1 .. Len(ranked) : Rankable(ranked[i])
        /\ \A i, j \in 1 .. Len(ranked) :
               i < j /\ Rankable(ranked[i]) /\ Rankable(ranked[j])
               /\ NormSq(Encode(call.text)) # 0
               => AtLeast(Score(ranked[i]), Score(ranked[j]))

\* C7. Emptiness handling: get_context over a table with no items, or with
\* no item of non-zero norm, returns the empty string.
C7_EmptyContext ==
    /\ call.op = "get_context"
    /\ raised = ""
    /\ \A x \in StoredItems : ~Rankable(x)
    => returned = <<>>

\* C8. Non-empty content: add_knowledge with empty content fails and no
\* stored item has empty content.
C8_NonEmptyContent ==
    /\ \A x \in StoredItems : x.content # ""
    /\ call.op = "add_knowledge" /\ call.text = "" => raised # ""

\* C9. Provisioning is idempotent: create_table on an existing table returns
\* normally and changes nothing, and a create_table that leaves no table
\* behind (a failure for any other reason) raises.
C9_ProvisioningIdempotent ==
    [][call'.op = "create_table" =>
          /\ tableExists => raised' = "" /\ tableExists' /\ table' = table
          /\ ~tableExists' => raised' # ""]_vars

\* The item add_knowledge is to store for the arguments of the call.
CompleteItem(c, item) ==
    /\ DOMAIN item = {"id", "content", "category", "embedding", "metadata"}
    /\ item.content = c.text
    /\ item.category = c.category
    /\ item.embedding = Encode(c.text)
    /\ item.metadata = (IF c.metadata.isNone THEN {} ELSE c.metadata.dict)

\* C10. put is all-or-nothing: an add_knowledge that raises (the encoder's
\* error among them) leaves the table as it was, and one that returns has
\* written the complete item under its id, and nothing else.
C10_PutAllOrNothing ==
    [][call'.op = "add_knowledge" =>
          /\ raised' \in {"", "EmbeddingError", "ResourceNotFoundException"}
          /\ raised' # "" => table' = table
          /\ raised' = "" =>
                \E k \in DOMAIN table' :
                    /\ table'[k].id = k
                    /\ CompleteItem(call', table'[k])
                    /\ DOMAIN table' = DOMAIN table \cup {k}
                    /\ \A j \in DOMAIN table \ {k} : table'[j] = table[j]]_vars

\* An add_knowledge of a new item into a table that holds one has raised the
\* encoder's error.
C10_Witness ==
    /\ call.op = "add_knowledge"
    /\ raised = "EmbeddingError"
    /\ StoredItems # {}
    /\ ItemId(hashSeed, call.category, call.text) \notin DOMAIN table

C12_ContentOnlyContext ==
    call.op = "get_context" /\ raised = "" /\ Len(ranked) > 0 =>
        /\ Len(returned) = Len(ranked) + 1
        /\ returned[1] = "Relevant Knowledge:\n"
        /\ \A i \in 1 .. Len(ranked) :
               returned[i + 1] = ToString(i) \o ". " \o ranked[i].content \o "\n"

\* get_context has returned a context of two ranked items.
C12_Witness ==
    /\ call.op = "get_context"
    /\ raised = ""
    /\ Len(ranked) = 2
    /\ Len(returned) = 3

\* C14. Agent singleton: an invocation of lambda_handler or
\* health_check_handler that finds the global agent set leaves it as it is,
\* constructs nothing, and uses that instance when it chats; one that finds
\* it unset attempts the construction, which either sets the agent (the one
\* agent of the process) or fails, leaving the agent unset and the
\* invocation answered with a 500 envelope.
C14_AgentSingleton ==
    [][invocation'.handler \in {"lambda_handler", "health_check_handler"} =>
          /\ built' <= 1
          /\ agent # NoAgent =>
                /\ agent' = agent
                /\ built' = built
                /\ invocation'.construction = "none"
                /\ invocation'.agent_used \in {NoAgent, agent}
          /\ agent = NoAgent =>
                \/ /\ invocation'.construction = "ok"
                   /\ agent' # NoAgent
                   /\ built' = built + 1
                   /\ invocation'.agent_used \in {NoAgent, agent'}
                \/ /\ invocation'.construction = "failed"
                   /\ agent' = NoAgent
                   /\ built' = built
                   /\ invocation'.raised = ""
                   /\ invocation'.statusCode = 500]_vars

\* lambda_handler has answered 200 with the agent an earlier invocation
\* constructed.
C14_Witness ==
    /\ invocation.handler = "lambda_handler"
    /\ invocation.construction = "none"
    /\ invocation.statusCode = 200
    /\ agent # NoAgent
    /\ invocation.agent_used = agent
    /\ built = 1

\* C15. Handler totality: lambda_handler (of either handler module) never
\* raises; it returns an envelope with statusCode 500 exactly when an
\* exception occurred, else 400 when the question is missing or empty (the
\* agent not invoked), else 200; and the envelope's session_id is the
\* request's session_id when supplied and the request id otherwise.
C15_HandlerTotality ==
    invocation.handler \in {"lambda_handler", "lambda_handler_minimal"} =>
        LET body == invocation.event.payload
            question == Get(body.question, Str(""))
        IN  /\ invocation.raised = ""
            /\ invocation.statusCode \in {200, 400, 500}
            /\ invocation.statusCode = 500 <=> invocation.error # ""
            /\ invocation.statusCode = 400 =>
                  ~Truthy(question) /\ invocation.agent_used = NoAgent
            /\ invocation.statusCode = 200 => Truthy(question)
            /\ invocation.session_id =
                  Get(body.session_id, Str(invocation.request_id))

====
